---- MODULE Spec2Model ----
(***************************************************************************)
(* Model of src/sonarqube/workflow.py: the analytics classes               *)
(* SalesAnalytics, CustomerAnalytics, ProductAnalytics and the price       *)
(* utility functions.                                                      *)
(*                                                                         *)
(* Records: an item is [product_id, price, quantity], an order is          *)
(* [customer_id, created_at, items], a customer is [customer_id, orders].  *)
(* Prices are integers (currency units); a value produced by Python's "/"  *)
(* is an exact rational [num, den] in lowest terms.  A Python dict is the  *)
(* sequence of its <<key, value>> pairs in insertion order.                *)
(***************************************************************************)
EXTENDS Integers, Sequences, FiniteSets

VARIABLES
    orders,             \* the `orders` / `all_orders` argument
    customers,          \* the `customers` argument
    product_id,         \* the `product_id` argument
    customer_id,        \* the `customer_id` argument
    limit,              \* the `limit` argument of get_top_products
    days,               \* the `days` argument of calculate_churn_rate
    now,                \* what datetime.datetime.now() reads
    price,              \* arguments of the price utility functions
    discount_percentage,
    tax_rate,
    sales_data,         \* SalesAnalytics instance fields
    customer_data,
    product_data,
    customer_segments,  \* CustomerAnalytics instance field
    returned            \* per operation: whether it was called, and what it returned

vars == <<orders, customers, product_id, customer_id, limit, days, now, price,
          discount_percentage, tax_rate, sales_data, customer_data, product_data,
          customer_segments, returned>>

inputs == <<orders, customers, product_id, customer_id, limit, days, price,
            discount_percentage, tax_rate>>

fields == <<sales_data, customer_data, product_data, customer_segments>>

-----------------------------------------------------------------------------
(* Bounds of the model *)

MaxOrders == 2

MaxCustomers == 2

MaxLimit == 3

NumProducts == 7

MaxNow == 101

-----------------------------------------------------------------------------
(* Generic helpers *)

SeqsUpTo(S, n) == UNION {[1..k -> S] : k \in 0..n}

Min(a, b) == IF a <= b THEN a ELSE b

Abs(a) == IF a < 0 THEN -a ELSE a

RECURSIVE Gcd(_, _)
Gcd(a, b) == IF b = 0 THEN a ELSE Gcd(b, a % b)

\* Python's s[:n] for a list s, for any integer n
SliceTo(s, n) ==
    LET stop == IF n >= 0 THEN Min(n, Len(s))
                ELSE IF Len(s) + n > 0 THEN Len(s) + n ELSE 0
    IN  SubSeq(s, 1, stop)

-----------------------------------------------------------------------------
(* Python numbers: exact rationals in lowest terms, den > 0 *)

ZeroDivisionError == [num |-> 0, den |-> 0]

Rat(n, d) ==
    LET g == Gcd(Abs(n), Abs(d))
        s == IF d < 0 THEN -1 ELSE 1
    IN  [num |-> s * (n \div g), den |-> s * (d \div g)]

FromInt(n) == [num |-> n, den |-> 1]

\* a / b
Divide(a, b) ==
    IF a.den = 0 \/ b.den = 0 \/ b.num = 0 THEN ZeroDivisionError
    ELSE Rat(a.num * b.den, a.den * b.num)

\* a * b
Times(a, b) ==
    IF a.den = 0 \/ b.den = 0 THEN ZeroDivisionError
    ELSE Rat(a.num * b.num, a.den * b.den)

\* a + b
Plus(a, b) ==
    IF a.den = 0 \/ b.den = 0 THEN ZeroDivisionError
    ELSE Rat(a.num * b.den + b.num * a.den, a.den * b.den)

\* a - b
Minus(a, b) ==
    IF a.den = 0 \/ b.den = 0 THEN ZeroDivisionError
    ELSE Rat(a.num * b.den - b.num * a.den, a.den * b.den)

-----------------------------------------------------------------------------
(* Operation names and the call record *)

Ops == {"calculate_total_revenue", "calculate_average_order_value",
        "get_top_products", "get_customer_lifetime_value",
        "segment_customers", "calculate_churn_rate",
        "analyze_product_performance", "get_product_recommendations",
        "calculate_discount_amount", "calculate_tax", "calculate_final_price"}

NotCalled == [called |-> FALSE, value |-> <<>>]

Return(op, v) == [returned EXCEPT ![op] = [called |-> TRUE, value |-> v]]

Called(op) == returned[op].called

Value(op) == returned[op].value

-----------------------------------------------------------------------------
(* SalesAnalytics *)

\* item.price * item.quantity
LineTotal(item) == item.price * item.quantity

\* total = total + item.price * item.quantity
AddRevenue_Overwrite(total, item) == LineTotal(item)

AddRevenue(total, item) == total + LineTotal(item)

RECURSIVE RevenueItemsLoop(_, _)
RevenueItemsLoop(items, total) ==
    IF items = <<>> THEN total
    ELSE RevenueItemsLoop(Tail(items), AddRevenue(total, Head(items)))

RECURSIVE RevenueOrdersLoop(_, _)
RevenueOrdersLoop(os, total) ==
    IF os = <<>> THEN total
    ELSE RevenueOrdersLoop(Tail(os), RevenueItemsLoop(Head(os).items, total))

calculate_total_revenue(os) == RevenueOrdersLoop(os, 0)

\* the loop of calculate_average_order_value: acc = [total, count]
RECURSIVE AverageItemsLoop(_, _)
AverageItemsLoop(items, total) ==
    IF items = <<>> THEN total
    ELSE AverageItemsLoop(Tail(items),
                          total + Head(items).price * Head(items).quantity)

RECURSIVE AverageOrdersLoop(_, _)
AverageOrdersLoop(os, acc) ==
    IF os = <<>> THEN acc
    ELSE AverageOrdersLoop(Tail(os),
            [total |-> AverageItemsLoop(Head(os).items, acc.total),
             count |-> acc.count + 1])

AverageResult_NoGuard(acc) == Divide(FromInt(acc.total), FromInt(acc.count))

\* if count == 0: return 0; return total / count
AverageResult(acc) ==
    IF acc.count = 0 THEN FromInt(0)
    ELSE Divide(FromInt(acc.total), FromInt(acc.count))

calculate_average_order_value(os) ==
    AverageResult(AverageOrdersLoop(os, [total |-> 0, count |-> 0]))

\* A Python dict: the sequence of its <<key, value>> pairs in insertion order
DictHas(d, k) == \E i \in 1..Len(d) : d[i][1] = k

DictGet(d, k) == d[CHOOSE i \in 1..Len(d) : d[i][1] = k][2]

\* d[k] = v: a new key goes last, an existing key keeps its place
DictSet(d, k, v) ==
    IF DictHas(d, k)
    THEN [i \in 1..Len(d) |-> IF d[i][1] = k THEN <<k, v>> ELSE d[i]]
    ELSE Append(d, <<k, v>>)

\* One step of sorted(..., key=lambda x: x[1], reverse=True): x goes after every
\* element whose value is >= its own, so equal values keep their input order.
InsertDesc_Unstable(s, x) ==
    LET k == Cardinality({i \in 1..Len(s) : s[i][2] > x[2]})
    IN  SubSeq(s, 1, k) \o <<x>> \o SubSeq(s, k + 1, Len(s))

InsertDesc(s, x) ==
    LET k == Cardinality({i \in 1..Len(s) : s[i][2] >= x[2]})
    IN  SubSeq(s, 1, k) \o <<x>> \o SubSeq(s, k + 1, Len(s))

RECURSIVE SortLoop(_, _)
SortLoop(rest, s) ==
    IF rest = <<>> THEN s ELSE SortLoop(Tail(rest), InsertDesc(s, Head(rest)))

SortedByValueDesc(d) == SortLoop(d, <<>>)

\* the if/else of get_top_products
TopProductsStep(product_sales, item) ==
    IF DictHas(product_sales, item.product_id)
    THEN DictSet(product_sales, item.product_id,
                 DictGet(product_sales, item.product_id) + item.quantity)
    ELSE DictSet(product_sales, item.product_id, item.quantity)

RECURSIVE TopItemsLoop(_, _)
TopItemsLoop(items, product_sales) ==
    IF items = <<>> THEN product_sales
    ELSE TopItemsLoop(Tail(items), TopProductsStep(product_sales, Head(items)))

RECURSIVE TopOrdersLoop(_, _)
TopOrdersLoop(os, product_sales) ==
    IF os = <<>> THEN product_sales
    ELSE TopOrdersLoop(Tail(os), TopItemsLoop(Head(os).items, product_sales))

get_top_products(os, lim) == SliceTo(SortedByValueDesc(TopOrdersLoop(os, <<>>)), lim)

RECURSIVE LifetimeItemsLoop(_, _)
LifetimeItemsLoop(items, total) ==
    IF items = <<>> THEN total
    ELSE LifetimeItemsLoop(Tail(items),
                           total + Head(items).price * Head(items).quantity)

RECURSIVE LifetimeOrdersLoop(_, _, _)
LifetimeOrdersLoop(cid, os, total) ==
    IF os = <<>> THEN total
    ELSE LifetimeOrdersLoop(cid, Tail(os),
            IF Head(os).customer_id = cid
            THEN LifetimeItemsLoop(Head(os).items, total)
            ELSE total)

get_customer_lifetime_value(cid, os) == LifetimeOrdersLoop(cid, os, 0)

-----------------------------------------------------------------------------
(* CustomerAnalytics *)

EmptySegments ==
    [high_value |-> <<>>, medium_value |-> <<>>, low_value |-> <<>>,
     inactive |-> <<>>]

RECURSIVE SpentItemsLoop(_, _)
SpentItemsLoop(items, total_spent) ==
    IF items = <<>> THEN total_spent
    ELSE SpentItemsLoop(Tail(items),
                        total_spent + Head(items).price * Head(items).quantity)

RECURSIVE SpentOrdersLoop(_, _)
SpentOrdersLoop(os, total_spent) ==
    IF os = <<>> THEN total_spent
    ELSE SpentOrdersLoop(Tail(os), SpentItemsLoop(Head(os).items, total_spent))

SegmentOf_Inclusive(total_spent) ==
    IF total_spent >= 1000 THEN "high_value"
    ELSE IF total_spent >= 500 THEN "medium_value"
    ELSE IF total_spent >= 100 THEN "low_value"
    ELSE "inactive"

\* the if/elif chain of segment_customers
SegmentOf(total_spent) ==
    IF total_spent > 1000 THEN "high_value"
    ELSE IF total_spent > 500 THEN "medium_value"
    ELSE IF total_spent > 100 THEN "low_value"
    ELSE "inactive"

RECURSIVE SegmentLoop(_, _)
SegmentLoop(cs, segments) ==
    IF cs = <<>> THEN segments
    ELSE LET customer == Head(cs)
             name == SegmentOf(SpentOrdersLoop(customer.orders, 0))
         IN  SegmentLoop(Tail(cs),
                         [segments EXCEPT ![name] = Append(@, customer)])

segment_customers(cs) == SegmentLoop(cs, EmptySegments)

\* last_order_date is None (<<>>) or <<a created_at>>
LastOrderStep_LastListed(last_order_date, order) == <<order.created_at>>

LastOrderStep(last_order_date, order) ==
    IF last_order_date = <<>> \/ order.created_at > last_order_date[1]
    THEN <<order.created_at>>
    ELSE last_order_date

RECURSIVE LastOrderLoop(_, _)
LastOrderLoop(os, last_order_date) ==
    IF os = <<>> THEN last_order_date
    ELSE LastOrderLoop(Tail(os), LastOrderStep(last_order_date, Head(os)))

RECURSIVE ChurnLoop(_, _, _)
ChurnLoop(cs, cutoff_date, inactive_customers) ==
    IF cs = <<>> THEN inactive_customers
    ELSE LET last_order_date == LastOrderLoop(Head(cs).orders, <<>>)
         IN  ChurnLoop(Tail(cs), cutoff_date,
                IF last_order_date = <<>> \/ last_order_date[1] < cutoff_date
                THEN inactive_customers + 1
                ELSE inactive_customers)

\* clock is the value datetime.datetime.now() returns, in days
calculate_churn_rate(cs, d, clock) ==
    LET total_customers == Len(cs)
        inactive_customers == ChurnLoop(cs, clock - d, 0)
    IN  IF total_customers = 0 THEN FromInt(0)
        ELSE Times(Divide(FromInt(inactive_customers), FromInt(total_customers)),
                   FromInt(100))

-----------------------------------------------------------------------------
(* ProductAnalytics *)

RecLimit == 5

EmptyMetrics ==
    [total_sold |-> 0, total_revenue |-> 0, average_price |-> FromInt(0),
     return_rate |-> 0]

PerformanceStep_NoFilter(pid, metrics, item) ==
    [metrics EXCEPT !.total_sold = @ + item.quantity,
                    !.total_revenue = @ + item.price * item.quantity]

\* the body of the inner loop of analyze_product_performance
PerformanceStep(pid, metrics, item) ==
    IF item.product_id = pid
    THEN [metrics EXCEPT !.total_sold = @ + item.quantity,
                         !.total_revenue = @ + item.price * item.quantity]
    ELSE metrics

RECURSIVE PerformanceItemsLoop(_, _, _)
PerformanceItemsLoop(pid, items, metrics) ==
    IF items = <<>> THEN metrics
    ELSE PerformanceItemsLoop(pid, Tail(items),
                              PerformanceStep(pid, metrics, Head(items)))

RECURSIVE PerformanceOrdersLoop(_, _, _)
PerformanceOrdersLoop(pid, os, metrics) ==
    IF os = <<>> THEN metrics
    ELSE PerformanceOrdersLoop(pid, Tail(os),
                               PerformanceItemsLoop(pid, Head(os).items, metrics))

analyze_product_performance(pid, os) ==
    LET metrics == PerformanceOrdersLoop(pid, os, EmptyMetrics)
    IN  IF metrics.total_sold > 0
        THEN [metrics EXCEPT !.average_price =
                 Divide(FromInt(metrics.total_revenue), FromInt(metrics.total_sold))]
        ELSE metrics

\* the first inner loop of get_product_recommendations
RECURSIVE RecScanLoop(_, _, _)
RecScanLoop(pid, items, scan) ==
    IF items = <<>> THEN scan
    ELSE RecScanLoop(pid, Tail(items),
            [has_product |-> scan.has_product \/ Head(items).product_id = pid,
             order_products |-> Append(scan.order_products, Head(items).product_id)])

\* the second inner loop: one count per entry of order_products
RECURSIVE RecCountLoop(_, _, _)
RecCountLoop(pid, order_products, related_products) ==
    IF order_products = <<>> THEN related_products
    ELSE LET prod_id == Head(order_products)
         IN  RecCountLoop(pid, Tail(order_products),
                IF prod_id # pid
                THEN IF DictHas(related_products, prod_id)
                     THEN DictSet(related_products, prod_id,
                                  DictGet(related_products, prod_id) + 1)
                     ELSE DictSet(related_products, prod_id, 1)
                ELSE related_products)

RECURSIVE RecOrdersLoop(_, _, _)
RecOrdersLoop(pid, os, related_products) ==
    IF os = <<>> THEN related_products
    ELSE LET scan == RecScanLoop(pid, Head(os).items,
                                 [has_product |-> FALSE, order_products |-> <<>>])
         IN  RecOrdersLoop(pid, Tail(os),
                IF scan.has_product
                THEN RecCountLoop(pid, scan.order_products, related_products)
                ELSE related_products)

RecTruncate_None(sorted_recommendations) == sorted_recommendations

\* sorted_recommendations[:5]
RecTruncate(sorted_recommendations) == SliceTo(sorted_recommendations, RecLimit)

get_product_recommendations(pid, all_orders) ==
    RecTruncate(SortedByValueDesc(RecOrdersLoop(pid, all_orders, <<>>)))

-----------------------------------------------------------------------------
(* Utility functions *)

calculate_discount_amount(p, pct) == Times(p, Divide(pct, FromInt(100)))

calculate_tax(amount, rate) == Times(amount, Divide(rate, FromInt(100)))

calculate_final_price_TaxOnFullPrice(p, pct, rate) ==
    LET discount == Times(p, Divide(pct, FromInt(100)))
        price_after_discount == Minus(p, discount)
        tax == Times(p, Divide(rate, FromInt(100)))
    IN  Plus(price_after_discount, tax)

calculate_final_price(p, pct, rate) ==
    LET discount == Times(p, Divide(pct, FromInt(100)))
        price_after_discount == Minus(p, discount)
        tax == Times(price_after_discount, Divide(rate, FromInt(100)))
        final_price == Plus(price_after_discount, tax)
    IN  final_price

-----------------------------------------------------------------------------
(* Calls.  No method assigns an instance field or an argument. *)

Frame == UNCHANGED <<inputs, now, fields>>

CallCalculateTotalRevenue ==
    /\ returned' = Return("calculate_total_revenue", calculate_total_revenue(orders))
    /\ Frame

CallCalculateAverageOrderValue ==
    /\ returned' = Return("calculate_average_order_value",
                          calculate_average_order_value(orders))
    /\ Frame

CallGetTopProducts ==
    /\ returned' = Return("get_top_products", get_top_products(orders, limit))
    /\ Frame

CallGetCustomerLifetimeValue ==
    /\ returned' = Return("get_customer_lifetime_value",
                          get_customer_lifetime_value(customer_id, orders))
    /\ Frame

CallSegmentCustomers_StoresSegments ==
    /\ returned' = Return("segment_customers", segment_customers(customers))
    /\ customer_segments' = customer_segments \o customers
    /\ UNCHANGED <<inputs, now, sales_data, customer_data, product_data>>

CallSegmentCustomers ==
    /\ returned' = Return("segment_customers", segment_customers(customers))
    /\ Frame

CallCalculateChurnRate ==
    /\ returned' = Return("calculate_churn_rate",
                          calculate_churn_rate(customers, days, now))
    /\ Frame

CallAnalyzeProductPerformance ==
    /\ returned' = Return("analyze_product_performance",
                          analyze_product_performance(product_id, orders))
    /\ Frame

CallGetProductRecommendations ==
    /\ returned' = Return("get_product_recommendations",
                          get_product_recommendations(product_id, orders))
    /\ Frame

CallCalculateDiscountAmount ==
    /\ returned' = Return("calculate_discount_amount",
            calculate_discount_amount(FromInt(price), FromInt(discount_percentage)))
    /\ Frame

CallCalculateTax ==
    /\ returned' = Return("calculate_tax",
            calculate_tax(FromInt(price), FromInt(tax_rate)))
    /\ Frame

CallCalculateFinalPrice ==
    /\ returned' = Return("calculate_final_price",
            calculate_final_price(FromInt(price), FromInt(discount_percentage),
                                  FromInt(tax_rate)))
    /\ Frame

\* the clock datetime.datetime.now() reads moves on; a churn rate computed
\* before is a result for an earlier `now`
Tick ==
    /\ now < MaxNow
    /\ now' = now + 1
    /\ returned' = [returned EXCEPT !["calculate_churn_rate"] = NotCalled]
    /\ UNCHANGED <<inputs, fields>>

-----------------------------------------------------------------------------
(* Initial states *)

\* SalesAnalytics(), CustomerAnalytics(), ProductAnalytics()
Constructed ==
    /\ sales_data = <<>>
    /\ customer_data = <<>>
    /\ product_data = <<>>
    /\ customer_segments = <<>>
    /\ returned = [op \in Ops |-> NotCalled]

DefaultIds == product_id = 1 /\ customer_id = 1

DefaultLimit == limit = 10

DefaultClock == days = 90 /\ now = 100

NoPrices == price = 0 /\ discount_percentage = 0 /\ tax_rate = 0

Item(p, pr, q) == [product_id |-> p, price |-> pr, quantity |-> q]

Order(c, t, items) == [customer_id |-> c, created_at |-> t, items |-> items]

Customer(c, os) == [customer_id |-> c, orders |-> os]

\* revenue inputs: up to MaxOrders orders of up to two items
RevenueItems == {Item(1, pr, q) : pr \in {5, 10}, q \in {1, 2}}

RevenueOrders == {Order(1, 0, its) : its \in SeqsUpTo(RevenueItems, 2)}

InitRevenue ==
    /\ Constructed
    /\ orders \in SeqsUpTo(RevenueOrders, MaxOrders)
    /\ customers = <<>>
    /\ DefaultIds /\ DefaultLimit /\ DefaultClock /\ NoPrices

NextRevenue == CallCalculateTotalRevenue \/ CallCalculateAverageOrderValue

SpecRevenue == InitRevenue /\ [][NextRevenue]_vars

\* top-product inputs: three products, quantities 1 and 2
TopItems == {Item(p, 10, q) : p \in 1..3, q \in {1, 2}}

TopOrders == {Order(1, 0, its) : its \in SeqsUpTo(TopItems, 2)}

InitTop ==
    /\ Constructed
    /\ orders \in SeqsUpTo(TopOrders, MaxOrders)
    /\ limit \in 0..MaxLimit
    /\ customers = <<>>
    /\ DefaultIds /\ DefaultClock /\ NoPrices

NextTop == CallGetTopProducts

SpecTop == InitTop /\ [][NextTop]_vars

\* segmentation inputs: spends on both sides of 100, 500 and 1000
SegmentItems == {Item(1, pr, q) : pr \in {50, 500, 1000}, q \in {1, 2}}

SegmentOrders == {Order(1, 0, its) : its \in SeqsUpTo(SegmentItems, 1)}

\* customers 1..k, customer i owning the orders os[i]
CustomersOver(os) == [i \in 1..Len(os) |-> Customer(i, os[i])]

SegmentOrderSeqs == SeqsUpTo(SegmentOrders, 2)

InitSegment ==
    /\ Constructed
    /\ \E os \in SeqsUpTo(SegmentOrderSeqs, MaxCustomers) :
          customers = CustomersOver(os)
    /\ orders = <<>>
    /\ DefaultIds /\ DefaultLimit /\ DefaultClock /\ NoPrices

NextSegment == CallSegmentCustomers

SpecSegment == InitSegment /\ [][NextSegment]_vars

\* churn inputs: orders 91, 90 and 89 days before now = 100
ChurnOrders == {Order(1, t, <<>>) : t \in {9, 10, 11}}

ChurnOrderSeqs == SeqsUpTo(ChurnOrders, 2)

InitChurn ==
    /\ Constructed
    /\ \E os \in SeqsUpTo(ChurnOrderSeqs, MaxCustomers) :
          customers = CustomersOver(os)
    /\ days \in {30, 90}
    /\ now \in {100, 101}
    /\ orders = <<>>
    /\ DefaultIds /\ DefaultLimit /\ NoPrices

NextChurn == CallCalculateChurnRate

SpecChurn == InitChurn /\ [][NextChurn]_vars

\* product-performance inputs: two products sold, a third never sold
PerformanceItems ==
    {Item(p, pq[1], pq[2]) : p \in {1, 2}, pq \in {<<5, 1>>, <<10, 1>>, <<10, 2>>}}

PerformanceOrders == {Order(1, 0, its) : its \in SeqsUpTo(PerformanceItems, 2)}

InitPerformance ==
    /\ Constructed
    /\ orders \in SeqsUpTo(PerformanceOrders, MaxOrders)
    /\ product_id \in 1..3
    /\ customer_id = 1
    /\ customers = <<>>
    /\ DefaultLimit /\ DefaultClock /\ NoPrices

NextPerformance == CallAnalyzeProductPerformance

SpecPerformance == InitPerformance /\ [][NextPerformance]_vars

\* recommendation inputs: orders of up to three item lines over three products
RecItems == {Item(p, 10, q) : p \in 1..3, q \in {1, 2}}

RecOrders == {Order(1, 0, its) : its \in SeqsUpTo(RecItems, 3)}

InitRec ==
    /\ Constructed
    /\ orders \in SeqsUpTo(RecOrders, 2)
    /\ product_id \in {1, 2}
    /\ customer_id = 1
    /\ customers = <<>>
    /\ DefaultLimit /\ DefaultClock /\ NoPrices

NextRec == CallGetProductRecommendations

SpecRec == InitRec /\ [][NextRec]_vars

\* recommendation inputs with more than RecLimit co-occurring products: an
\* order holds one line for each product of a subset of 1..NumProducts
RECURSIVE LinesOf(_)
LinesOf(S) ==
    IF S = {} THEN <<>>
    ELSE LET p == CHOOSE x \in S : \A y \in S : x <= y
         IN  <<Item(p, 10, 1)>> \o LinesOf(S \ {p})

SubsetOrders == {Order(1, 0, LinesOf(S)) : S \in SUBSET (1..NumProducts)}

InitRecLimit ==
    /\ Constructed
    /\ orders \in SeqsUpTo(SubsetOrders, 2)
    /\ product_id \in {1, 2}
    /\ limit \in {3, 5}
    /\ customer_id = 1
    /\ customers = <<>>
    /\ DefaultClock /\ NoPrices

NextRecLimit == CallGetProductRecommendations

SpecRecLimit == InitRecLimit /\ [][NextRecLimit]_vars

\* price inputs
InitPrice ==
    /\ Constructed
    /\ price \in {0, 1, 99, 100, 250}
    /\ discount_percentage \in {0, 10, 33, 100}
    /\ tax_rate \in {0, 10, 13}
    /\ orders = <<>>
    /\ customers = <<>>
    /\ DefaultIds /\ DefaultLimit /\ DefaultClock

NextPrice ==
    CallCalculateDiscountAmount \/ CallCalculateTax \/ CallCalculateFinalPrice

SpecPrice == InitPrice /\ [][NextPrice]_vars

\* any sequence of calls of the methods of the three classes on one input
PureOrders ==
    {Order(1, 9, <<Item(1, 5, 1), Item(2, 10, 2)>>), Order(2, 11, <<Item(2, 10, 1)>>)}

PureOrderSeqs == SeqsUpTo(PureOrders, 1)

InitPure ==
    /\ Constructed
    /\ orders \in SeqsUpTo(PureOrders, MaxOrders)
    /\ \E os \in SeqsUpTo(PureOrderSeqs, MaxCustomers) :
          customers = CustomersOver(os)
    /\ DefaultIds /\ DefaultLimit /\ DefaultClock /\ NoPrices

NextPure ==
    \/ CallCalculateTotalRevenue
    \/ CallCalculateAverageOrderValue
    \/ CallGetTopProducts
    \/ CallGetCustomerLifetimeValue
    \/ CallSegmentCustomers
    \/ CallCalculateChurnRate
    \/ CallAnalyzeProductPerformance
    \/ CallGetProductRecommendations
    \/ Tick

SpecPure == InitPure /\ [][NextPure]_vars

-----------------------------------------------------------------------------
(* What the claims speak of, stated over the input itself *)

\* every <<order index, item index>> of an order sequence
Positions(os) ==
    UNION {{<<i, j>> : j \in 1..Len(os[i].items)} : i \in 1..Len(os)}

ItemAt(os, pos) == os[pos[1]].items[pos[2]]

RECURSIVE SumQuantity(_, _)
SumQuantity(os, S) ==
    IF S = {} THEN 0
    ELSE LET pos == CHOOSE x \in S : TRUE
         IN  ItemAt(os, pos).quantity + SumQuantity(os, S \ {pos})

RECURSIVE SumRevenue(_, _)
SumRevenue(os, S) ==
    IF S = {} THEN 0
    ELSE LET pos == CHOOSE x \in S : TRUE
         IN  ItemAt(os, pos).price * ItemAt(os, pos).quantity
             + SumRevenue(os, S \ {pos})

PositionsOf(os, p) == {pos \in Positions(os) : ItemAt(os, pos).product_id = p}

SoldProducts(os) == {ItemAt(os, pos).product_id : pos \in Positions(os)}

Before(a, b) == a[1] < b[1] \/ (a[1] = b[1] /\ a[2] < b[2])

FirstSeen(os, p) ==
    CHOOSE a \in PositionsOf(os, p) :
        \A b \in PositionsOf(os, p) : a = b \/ Before(a, b)

Perms(n) == {f \in [1..n -> 1..n] : \A i, j \in 1..n : f[i] = f[j] => i = j}

PermuteSeq(s, f) == [i \in 1..Len(s) |-> s[f[i]]]

\* every reordering of the orders and of the items within each order
Rearrangements(os) ==
    LET n == Len(os)
        itemPerms == UNION {Perms(Len(os[i].items)) : i \in 1..n}
    IN  {[i \in 1..n |-> [os[p[i]] EXCEPT !.items = PermuteSeq(@, q[p[i]])]] :
            p \in Perms(n),
            q \in {q \in [1..n -> itemPerms] :
                     \A i \in 1..n : q[i] \in Perms(Len(os[i].items))}}

-----------------------------------------------------------------------------
(* Claims *)

\* C6: calculate_total_revenue(orders) is 0 for empty input, equals the sum of
\* price*quantity over every item of every order, and is the same for every
\* permutation of the orders and of the items within each order.
C6_TotalRevenueOrderIndependent ==
    Called("calculate_total_revenue") =>
        LET r == Value("calculate_total_revenue")
        IN  /\ orders = <<>> => r = 0
            /\ r = SumRevenue(orders, Positions(orders))
            /\ \A os \in Rearrangements(orders) : calculate_total_revenue(os) = r

C6_Witness ==
    /\ Called("calculate_total_revenue")
    /\ Len(orders) = 2
    /\ Len(orders[1].items) = 2
    /\ orders[1].items[1] # orders[1].items[2]
    /\ Len(orders[2].items) = 1
    /\ Value("calculate_total_revenue") = 35

\* C7: calculate_average_order_value(orders) is 0 for no orders, otherwise
\* calculate_total_revenue(orders) / number of orders, orders without items
\* counted in the divisor; it never divides by zero.
C7_AverageOrderValue ==
    Called("calculate_average_order_value") =>
        LET r == Value("calculate_average_order_value")
        IN  /\ r # ZeroDivisionError
            /\ orders = <<>> => r = FromInt(0)
            /\ orders # <<>> =>
                  r = Rat(calculate_total_revenue(orders), Len(orders))

C7_Witness ==
    /\ Called("calculate_average_order_value")
    /\ Len(orders) = 2
    /\ orders[1].items = <<>>
    /\ orders[2].items # <<>>
    /\ Value("calculate_average_order_value") = [num |-> 5, den |-> 2]

\* C5: get_top_products(orders, limit) returns at most limit pairs
\* <<product_id, total quantity>>, the total being the sum of item.quantity of
\* that product over all items of all orders, sorted by total descending, equal
\* totals in first-encountered order; no omitted product has a larger total
\* than a returned one.
C5_TopProducts ==
    Called("get_top_products") =>
        LET r == Value("get_top_products")
            sold == SoldProducts(orders)
            got == {r[i][1] : i \in 1..Len(r)}
        IN  /\ Len(r) <= limit
            /\ Len(r) = Min(limit, Cardinality(sold))
            /\ \A i \in 1..Len(r) :
                  /\ r[i][1] \in sold
                  /\ r[i][2] = SumQuantity(orders, PositionsOf(orders, r[i][1]))
            /\ \A i, j \in 1..Len(r) : i < j =>
                  \/ r[i][2] > r[j][2]
                  \/ /\ r[i][2] = r[j][2]
                     /\ Before(FirstSeen(orders, r[i][1]), FirstSeen(orders, r[j][1]))
            /\ \A p \in sold \ got : \A i \in 1..Len(r) :
                  SumQuantity(orders, PositionsOf(orders, p)) <= r[i][2]

C5_Witness ==
    /\ Called("get_top_products")
    /\ Len(Value("get_top_products")) = 2
    /\ Cardinality(SoldProducts(orders)) = 3
    /\ Value("get_top_products")[1][2] = Value("get_top_products")[2][2]
    /\ Value("get_top_products")[1][1] > Value("get_top_products")[2][1]

HasProduct(os, i, p) == \E j \in 1..Len(os[i].items) : os[i].items[j].product_id = p

TargetOrders(os, pid) == {i \in 1..Len(os) : HasProduct(os, i, pid)}

\* the products other than the target in the orders that contain the target
CoProducts(os, pid) ==
    {p \in SoldProducts(os) : p # pid /\ \E i \in TargetOrders(os, pid) : HasProduct(os, i, p)}

\* the item lines carrying p in the orders that contain the target
CoLines(os, pid, p) == {pos \in PositionsOf(os, p) : pos[1] \in TargetOrders(os, pid)}

\* C1: in get_product_recommendations the returned count of every other
\* product X is the number of orders that contain both the target product and
\* X: once per order, whatever the quantities and however many item lines of
\* the order carry X.
C1_CountOncePerOrder ==
    Called("get_product_recommendations") =>
        LET r == Value("get_product_recommendations")
        IN  \A k \in 1..Len(r) :
                r[k][2] = Cardinality({i \in TargetOrders(orders, product_id) :
                                          HasProduct(orders, i, r[k][1])})

\* C2 as stated: the recommendations are sorted by count descending and
\* truncated to the caller's limit: exactly min(limit, number of distinct
\* co-occurring products) entries, no omitted product with a strictly higher
\* count than a returned one.
C2_TruncatedToCallerLimit ==
    Called("get_product_recommendations") =>
        LET r == Value("get_product_recommendations")
            co == CoProducts(orders, product_id)
            got == {r[i][1] : i \in 1..Len(r)}
        IN  /\ Len(r) = Min(limit, Cardinality(co))
            /\ \A i, j \in 1..Len(r) : i < j => r[i][2] >= r[j][2]
            /\ \A p \in co \ got : \A i \in 1..Len(r) :
                  Cardinality(CoLines(orders, product_id, p)) <= r[i][2]

\* C2 amended: the recommendations are pairs <<product, count>> of distinct
\* co-occurring products sorted by count descending and truncated to 5 entries
\* (the method takes no limit): exactly min(5, number of distinct co-occurring
\* products) entries, no omitted product with a strictly higher count than a
\* returned one.
C2_TruncatedToFive ==
    Called("get_product_recommendations") =>
        LET r == Value("get_product_recommendations")
            co == CoProducts(orders, product_id)
            got == {r[i][1] : i \in 1..Len(r)}
        IN  /\ Len(r) = Min(5, Cardinality(co))
            /\ Cardinality(got) = Len(r)
            /\ \A i \in 1..Len(r) :
                  /\ r[i][1] \in co
                  /\ r[i][2] = Cardinality(CoLines(orders, product_id, r[i][1]))
            /\ \A i, j \in 1..Len(r) : i < j => r[i][2] >= r[j][2]
            /\ \A p \in co \ got : \A i \in 1..Len(r) :
                  Cardinality(CoLines(orders, product_id, p)) <= r[i][2]

C2_Witness ==
    /\ Called("get_product_recommendations")
    /\ Cardinality(CoProducts(orders, product_id)) = 6
    /\ Len(Value("get_product_recommendations")) = 5
    /\ Value("get_product_recommendations")[1] = <<5, 2>>
    /\ Value("get_product_recommendations")[5][2] = 1

Spend(customer) == SumRevenue(customer.orders, Positions(customer.orders))

Occurrences(s, x) == Cardinality({k \in 1..Len(s) : s[k] = x})

\* C3: segment_customers places every customer in exactly one of the four
\* segments, by total spend with exclusive lower bounds: > 1000 high_value,
\* 500 < spend <= 1000 medium_value, 100 < spend <= 500 low_value, <= 100
\* inactive.
C3_SegmentsByExclusiveThresholds ==
    Called("segment_customers") =>
        LET seg == Value("segment_customers")
        IN  /\ DOMAIN seg = {"high_value", "medium_value", "low_value", "inactive"}
            /\ Len(seg.high_value) + Len(seg.medium_value) + Len(seg.low_value)
                 + Len(seg.inactive) = Len(customers)
            /\ \A i \in 1..Len(customers) :
                  LET c == customers[i]
                      spend == Spend(c)
                  IN  /\ Occurrences(seg.high_value, c)
                           = IF spend > 1000 THEN 1 ELSE 0
                      /\ Occurrences(seg.medium_value, c)
                           = IF 500 < spend /\ spend <= 1000 THEN 1 ELSE 0
                      /\ Occurrences(seg.low_value, c)
                           = IF 100 < spend /\ spend <= 500 THEN 1 ELSE 0
                      /\ Occurrences(seg.inactive, c)
                           = IF spend <= 100 THEN 1 ELSE 0

C3_Witness ==
    /\ Called("segment_customers")
    /\ Len(customers) = 2
    /\ Spend(customers[1]) = 1000
    /\ Spend(customers[2]) = 500
    /\ Value("segment_customers").medium_value = <<customers[1]>>
    /\ Value("segment_customers").low_value = <<customers[2]>>

Churned(customer) ==
    \/ customer.orders = <<>>
    \/ \A j \in 1..Len(customer.orders) : customer.orders[j].created_at < now - days

ChurnedCount == Cardinality({i \in 1..Len(customers) : Churned(customers[i])})

\* C4: calculate_churn_rate returns 0 for no customers, otherwise
\* churned / total * 100, within [0, 100]; a customer is churned exactly when
\* they have no orders or the latest created_at of their orders, in whatever
\* order they are listed, is strictly earlier than now - days.
C4_ChurnRate ==
    Called("calculate_churn_rate") =>
        LET r == Value("calculate_churn_rate")
        IN  /\ r.den > 0
            /\ 0 <= r.num /\ r.num <= 100 * r.den
            /\ customers = <<>> => r = FromInt(0)
            /\ customers # <<>> => r = Rat(ChurnedCount * 100, Len(customers))

C4_Witness ==
    /\ Called("calculate_churn_rate")
    /\ days = 90 /\ now = 100
    /\ Len(customers) = 2
    /\ Len(customers[1].orders) = 2
    /\ customers[1].orders[1].created_at = 10
    /\ customers[1].orders[2].created_at = 9
    /\ Len(customers[2].orders) = 1
    /\ customers[2].orders[1].created_at = 9
    /\ Value("calculate_churn_rate") = FromInt(50)

\* C8: analyze_product_performance returns total_sold and total_revenue as the
\* sums of quantity and price*quantity over exactly the items of the product,
\* average_price = total_revenue / total_sold when total_sold > 0 and 0
\* otherwise, without dividing by zero, and return_rate 0.
C8_ProductPerformance ==
    Called("analyze_product_performance") =>
        LET m == Value("analyze_product_performance")
            mine == PositionsOf(orders, product_id)
        IN  /\ m.total_sold = SumQuantity(orders, mine)
            /\ m.total_revenue = SumRevenue(orders, mine)
            /\ m.average_price # ZeroDivisionError
            /\ m.total_sold > 0 => m.average_price = Rat(m.total_revenue, m.total_sold)
            /\ m.total_sold <= 0 => m.average_price = FromInt(0)
            /\ m.return_rate = 0

C8_Witness ==
    /\ Called("analyze_product_performance")
    /\ Cardinality(PositionsOf(orders, product_id)) = 2
    /\ Cardinality(Positions(orders)) = 4
    /\ Value("analyze_product_performance").average_price = [num |-> 25, den |-> 3]

\* C9: calculate_final_price applies the discount first and the tax to the
\* discounted amount: (price - discount) + tax(price - discount), that is
\* (price - price*discount_pct/100) * (1 + tax_rate/100), not the value with
\* the tax taken on the undiscounted price; (100, 10, 10) gives 99.
C9_DiscountThenTax ==
    Called("calculate_final_price") =>
        LET r == Value("calculate_final_price")
            p == FromInt(price)
            d == FromInt(discount_percentage)
            t == FromInt(tax_rate)
            discounted == Minus(p, calculate_discount_amount(p, d))
        IN  /\ r = Plus(discounted, calculate_tax(discounted, t))
            /\ r = Times(Minus(p, Divide(Times(p, d), FromInt(100))),
                         Plus(FromInt(1), Divide(t, FromInt(100))))
            /\ (price # 0 /\ discount_percentage # 0 /\ tax_rate # 0) =>
                  r # Plus(discounted, calculate_tax(p, t))
            /\ (price = 100 /\ discount_percentage = 10 /\ tax_rate = 10) =>
                  r = FromInt(99)

C9_Witness ==
    /\ Called("calculate_final_price")
    /\ price = 100 /\ discount_percentage = 10 /\ tax_rate = 10
    /\ Value("calculate_final_price") = FromInt(99)

Methods == {"calculate_total_revenue", "calculate_average_order_value",
            "get_top_products", "get_customer_lifetime_value",
            "segment_customers", "calculate_churn_rate",
            "analyze_product_performance", "get_product_recommendations"}

FieldsEmpty ==
    /\ sales_data = <<>>
    /\ customer_data = <<>>
    /\ product_data = <<>>
    /\ customer_segments = <<>>

\* C10: every analytics method is pure: the instance fields stay the empty
\* lists of construction, the orders, customers and other arguments are
\* unchanged, and an operation called again on the same input (for churn, at
\* the same now) returns what it returned before, whatever was called between.
C10_Pure ==
    /\ [](FieldsEmpty)
    /\ [][/\ inputs' = inputs
          /\ \A op \in Methods :
                (Called(op) /\ returned'[op].called) =>
                    returned'[op].value = Value(op)]_vars

C10_Witness ==
    /\ \A op \in Methods : Called(op)
    /\ Len(orders) = 2
    /\ Len(customers) = 2
    /\ now = 101

====
